---- MODULE Spec2Model ----
(***************************************************************************)
(* Model of the SkillConnect backend (src/pro/backend/app.py): the job     *)
(* posting, application, status-history and notification tables, and the   *)
(* request handlers apply_job, application_detail, job_detail and          *)
(* mark_notification_read.                                                 *)
(* The variable was_closed is a history variable: it records the postings  *)
(* whose status has been closed or filled at some commit, and no handler   *)
(* reads it.                                                               *)
(*                                                                         *)
(* The listings GET /api/jobs and GET /api/workers write nothing.  They    *)
(* are functions of the tables and of the query string, and are checked    *)
(* under ListingSpec: its initial states draw the two tables and each step *)
(* is one listing request of a client that pages through one query.  Under *)
(* ReadSpec they interleave with the views of a posting on the tables of a *)
(* running server.                                                         *)
(*                                                                         *)
(* Every request is served by its own worker with its own database         *)
(* session.  A handler first loads rows (its reads), then changes the      *)
(* loaded objects and calls db.session.commit(): the reads and each commit *)
(* are separate steps of the model, so that requests interleave between    *)
(* them.  No handler locks a row or asks for serializable isolation, and   *)
(* no table carries a uniqueness constraint besides its primary key, so a  *)
(* commit writes what its session computed from the rows it loaded.  A     *)
(* commit either succeeds or raises (a storage failure); the handler's     *)
(* except branch then rolls the session back and answers 500.              *)
(***************************************************************************)
EXTENDS Integers, Sequences, FiniteSets, TLC

\* ------------------------------------------------------------ bounds
MaxProcs == 2        \* requests in flight at the same time
MaxApps  == 2        \* rows of the applications table
MaxReqs  == 3        \* requests that reach a commit, in one behaviour
MaxRows  == 3        \* rows of a table that is listed

\* ------------------------------------------------------------ data
Procs   == 1 .. MaxProcs
Workers == {1, 2}
Employers == {3}
Users   == Workers \cup Employers
JobIds  == {1, 2}
MissingId == 0       \* an id no row has: get() gives None, get_or_404 aborts
NoTime == 0          \* a DateTime column that is NULL
DefaultPerPage == 20 \* request.args.get('per_page', 20)

Absent == "absent"   \* a key the request body does not carry
AbsentNum == 0 - 1   \* the same, for a key with a numeric value

\* The statuses of an application that the lifecycle names.
AppStatuses == {"pending", "reviewed", "interview_scheduled", "hired",
                "rejected", "withdrawn"}

\* Bodies of PUT /api/applications/<id>: the keys the handler reads.  Any
\* string may come as 'status'; "archived" is one outside the six.
AppPutData ==
    { [status |-> s, notes |-> Absent, employer_notes |-> Absent] :
          s \in (AppStatuses \ {"rejected"}) \cup {"archived"} }
    \cup { [status |-> "rejected", notes |-> "position filled",
            employer_notes |-> Absent],
          [status |-> Absent, notes |-> Absent, employer_notes |-> "shortlist"] }

\* What the employer writes to a posting: the body of PUT /api/jobs/<id>,
\* where any attribute of the row may be named, or DELETE, which assigns
\* status 'closed'.
JobPutData ==
    { [status |-> "active", applications_count |-> 0,
       views_count |-> AbsentNum],
      [status |-> "filled", applications_count |-> AbsentNum,
       views_count |-> AbsentNum],
      [status |-> Absent, applications_count |-> AbsentNum,
       views_count |-> 0 - 2] }
JobDeleteData ==
    [status |-> "closed", applications_count |-> AbsentNum,
     views_count |-> AbsentNum]
JobWriteData  == JobPutData \cup {JobDeleteData}

VARIABLES jobs, applications, status_history, notifications, reqs, nreq,
          was_closed, worker_profiles, listing

vars == <<jobs, applications, status_history, notifications, reqs, nreq,
          was_closed, worker_profiles, listing>>
db   == <<jobs, applications, status_history, notifications>>
lst  == <<worker_profiles, listing>>

\* ------------------------------------------------------------ rows
\* Strings that are searched or parsed are sequences of characters.
Job(employer, st) ==
    [employer_id |-> employer, status |-> st,
     applications_count |-> 0, views_count |-> 0,
     job_type |-> <<"f">>, category |-> <<"e">>,
     title |-> <<"a">>, description |-> <<"a">>, skills_required |-> <<"a">>,
     location |-> <<"a", "b">>, remote_ok |-> FALSE,
     salary_min |-> 1, salary_max |-> 3, created_at |-> 0]

WorkerProfile(u) ==
    [user_id |-> u, primary_category |-> <<"e">>, location |-> <<"a", "b">>,
     hourly_rate |-> 2, experience_years |-> 2, verified |-> TRUE,
     top_rated |-> FALSE, skills |-> <<"a">>, rating |-> 4]

Application(j, u) ==
    [job_id |-> j, user_id |-> u, status |-> "pending",
     employer_notes |-> Absent,
     viewed_by_employer |-> FALSE, viewed_at |-> NoTime]

ApplicationStatusHistory(a, from, to, by, note) ==
    [application_id |-> a, from_status |-> from, to_status |-> to,
     changed_by_id |-> by, notes |-> note]

Notification(u, t, a) ==
    [user_id |-> u, type |-> t, link |-> a, is_read |-> FALSE,
     read_at |-> NoTime]

\* ------------------------------------------------------------ requests
\* A request in flight: its arguments, the row its session loaded, and where
\* its handler stands.
IdleReq ==
    [op |-> "none", pc |-> "idle", user |-> 0, job |-> 0, app |-> 0,
     notif |-> 0, data |-> <<>>, loaded |-> <<>>, resp |-> "none"]

NewReq(o, u, j, a) ==
    [IdleReq EXCEPT !.op = o, !.user = u, !.job = j, !.app = a]

\* The answer of a request; its locals are gone with it.
Respond(r, code) ==
    [IdleReq EXCEPT !.op = r.op, !.pc = "done", !.user = r.user,
                    !.job = r.job, !.app = r.app, !.notif = r.notif,
                    !.resp = code]

\* A worker takes a request when it is idle.  An answer is handed to the
\* client before any other step is taken: receiving it touches no table.
\* The workers are alike: the idle worker with the lowest number takes it.
Answered == \E q \in Procs : reqs[q].pc = "done"
Free(p)  == /\ reqs[p].pc = "idle"
            /\ ~Answered
            /\ \A q \in Procs : q < p => reqs[q].pc # "idle"
At(p, l) == reqs[p].pc = l /\ ~Answered

\* The handler answers from its reads alone.
Answer(p, r, code) ==
    /\ reqs' = [reqs EXCEPT ![p] = Respond(r, code)]
    /\ UNCHANGED nreq

\* datetime.utcnow(): the clock moves on with every request that goes on to
\* a commit, so no two of them read the same time.
utcnow == nreq + 1

\* The handler goes on to a commit.
Proceed(p, r) ==
    /\ nreq < MaxReqs
    /\ reqs' = [reqs EXCEPT ![p] = r]
    /\ nreq' = nreq + 1

\* No listing request has been answered.
NoListing ==
    [op |-> "none", args |-> <<>>, resp |-> "none", items |-> <<>>,
     total |-> 0, pages |-> 0, current_page |-> 0]

\* Application rows that requests in flight may still insert.
PendingApps == Cardinality({p \in Procs : reqs[p].pc = "apply_commit"})

\* The tables when the server starts.  The database file outlives the
\* process (seed_indian_data returns at once when it finds users): the
\* server starts on the freshly seeded tables, with active postings and no
\* application, or on tables an earlier run left, here with the one
\* application that worker 1 submitted to posting 1.
Seeded ==
    /\ jobs = [j \in JobIds |-> [Job(3, "active") EXCEPT !.created_at = j]]
    /\ applications = <<>>
    /\ notifications = <<>>

Restarted ==
    /\ jobs = [j \in JobIds |->
                 [Job(3, "active") EXCEPT
                     !.created_at = j,
                     !.applications_count = IF j = 1 THEN 1 ELSE 0]]
    /\ applications = <<Application(1, 1)>>
    /\ notifications = <<Notification(3, "new_application", 1)>>

Init ==
    /\ Seeded \/ Restarted
    /\ status_history = <<>>
    /\ reqs = [p \in Procs |-> IdleReq]
    /\ nreq = 0
    /\ was_closed = {}
    /\ worker_profiles = [u \in Workers |-> WorkerProfile(u)]
    /\ listing = NoListing

\* The column value an UPDATE leaves: the unit of work writes an attribute
\* only if the value assigned differs from the value the session loaded.
NetChange(loadedval, setval, stored) ==
    IF setval = loadedval THEN stored ELSE setval

\* ------------------------------------------------------------ apply_job
\* Line 933: the posting takes applications.  A variant that takes them
\* whatever the status is kept beside it.
acceptingAnyStatus(j) == TRUE

accepting(j) == jobs[j].status = "active"

\* Application.query.filter_by(job_id, user_id).first(), line 936: a row of
\* the pair, whatever its status.  A variant that looks for pending rows
\* only is kept beside it.
existingPendingOnly(j, u) ==
    \E a \in 1 .. Len(applications) :
        /\ applications[a].job_id = j /\ applications[a].user_id = u
        /\ applications[a].status = "pending"

existing(j, u) ==
    \E a \in 1 .. Len(applications) :
        applications[a].job_id = j /\ applications[a].user_id = u

\* Lines 927-940: the reads and the three early returns.
apply_job_read(p, u, j) ==
    /\ Free(p)
    /\ LET r == NewReq("apply", u, j, 0) IN
       IF j \notin JobIds THEN Answer(p, r, "404")
       ELSE IF ~accepting(j) THEN Answer(p, r, "400_closed")
       ELSE IF existing(j, u) THEN Answer(p, r, "400_duplicate")
       ELSE /\ Len(applications) + PendingApps < MaxApps
            /\ Proceed(p, [r EXCEPT !.pc = "apply_commit", !.loaded = jobs[j]])
    /\ UNCHANGED <<lst, db, was_closed>>

\* Lines 942-953: the counter is computed from the loaded value and written
\* with the new row in the first commit.
apply_job_commit(p) ==
    /\ At(p, "apply_commit")
    /\ LET r == reqs[p] IN
       /\ applications' = Append(applications, Application(r.job, r.user))
       /\ jobs' = [jobs EXCEPT ![r.job].applications_count =
                                  r.loaded.applications_count + 1]
       /\ reqs' = [reqs EXCEPT ![p] =
                     [r EXCEPT !.pc = "apply_notify",
                               !.app = Len(applications) + 1]]
    /\ UNCHANGED <<lst, status_history, notifications, nreq, was_closed>>

\* Lines 955-965: the notification is written in a second commit.
apply_job_notify(p) ==
    /\ At(p, "apply_notify")
    /\ LET r == reqs[p] IN
       /\ notifications' = Append(notifications,
              Notification(jobs[r.job].employer_id, "new_application", r.app))
       /\ reqs' = [reqs EXCEPT ![p] = Respond(r, "201")]
    /\ UNCHANGED <<lst, jobs, applications, status_history, nreq, was_closed>>

\* Lines 967-970: a commit raises; the session is rolled back (what an
\* earlier commit wrote stays) and the caller gets 500.
apply_job_fail(p) ==
    /\ \/ At(p, "apply_commit")
       \/ At(p, "apply_notify")
    /\ reqs' = [reqs EXCEPT ![p] = Respond(reqs[p], "500")]
    /\ UNCHANGED <<lst, db, nreq, was_closed>>

\* ------------------------------------------------------------ application_detail
\* Line 1135: the caller is the employer of the application's posting.  A
\* variant that also lets the applicant through is kept beside it.
ownerOrApplicant(u, a) ==
    \/ jobs[applications[a].job_id].employer_id = u
    \/ applications[a].user_id = u

owner(u, a) == jobs[applications[a].job_id].employer_id = u

\* GET, line 1124: the read marks the application as viewed: the caller is
\* the employer of the posting and the loaded row is not viewed yet.  A
\* variant that marks it for whoever reads it is kept beside it.
marks_viewed_any(u, a) == ~applications[a].viewed_by_employer

marks_viewed(u, a) ==
    owner(u, a) /\ ~applications[a].viewed_by_employer

\* GET, lines 1116-1129: the row is loaded; the applicant and the employer
\* may read it.  When the caller is the employer and the loaded row is not
\* viewed, the handler stamps it and goes on to a commit.
application_detail_get_read(p, u, a) ==
    /\ Free(p)
    /\ LET r == NewReq("app_get", u, 0, a) IN
       IF a \notin 1 .. Len(applications) THEN Answer(p, r, "404")
       ELSE IF applications[a].user_id # u /\ ~owner(u, a)
       THEN Answer(p, r, "403")
       ELSE IF marks_viewed(u, a)
       THEN Proceed(p, [r EXCEPT !.pc = "app_get_commit", !.data = utcnow,
                                 !.loaded = applications[a]])
       ELSE Answer(p, r, "200")
    /\ UNCHANGED <<lst, db, was_closed>>

\* GET, lines 1125-1129: the two columns the session changed are written.
application_detail_get_commit(p) ==
    /\ At(p, "app_get_commit")
    /\ LET r == reqs[p]
           row == applications[r.app]
       IN
       /\ applications' = [applications EXCEPT ![r.app] =
              [row EXCEPT
                  !.viewed_by_employer =
                      NetChange(r.loaded.viewed_by_employer, TRUE,
                                row.viewed_by_employer),
                  !.viewed_at =
                      NetChange(r.loaded.viewed_at, r.data, row.viewed_at)]]
       /\ reqs' = [reqs EXCEPT ![p] = Respond(r, "200")]
    /\ UNCHANGED <<lst, jobs, status_history, notifications, nreq, was_closed>>

\* GET, lines 1130-1131: the commit raises; nothing is written.
application_detail_get_fail(p) ==
    /\ At(p, "app_get_commit")
    /\ reqs' = [reqs EXCEPT ![p] = Respond(reqs[p], "500")]
    /\ UNCHANGED <<lst, db, nreq, was_closed>>

\* PUT, lines 1116-1139: the row is loaded, the caller must own the posting,
\* old_status is the loaded status.
application_detail_put_read(p, u, a, d) ==
    /\ Free(p)
    /\ LET r == NewReq("app_put", u, 0, a) IN
       IF a \notin 1 .. Len(applications) THEN Answer(p, r, "404")
       ELSE IF ~owner(u, a) THEN Answer(p, r, "403")
       ELSE Proceed(p, [r EXCEPT !.pc = "app_put_commit", !.data = d,
                                 !.loaded = applications[a]])
    /\ UNCHANGED <<lst, db, was_closed>>

\* PUT, lines 1144-1150: the history row of a status change.  A variant that
\* records the new status on both sides is kept beside it.
HistoryRowSameStatus(r) ==
    ApplicationStatusHistory(r.app, r.data.status, r.data.status,
                             r.user, r.data.notes)

HistoryRow(r) ==
    ApplicationStatusHistory(r.app, r.loaded.status, r.data.status,
                             r.user, r.data.notes)

\* PUT, lines 1153-1159: the notification of a status change, addressed to
\* the applicant.
StatusNotification(r) ==
    Notification(r.loaded.user_id, "application_status", r.app)

\* PUT, line 1141: the body asks for a status.  A variant that takes every
\* body as a status change is kept beside it.
status_in_any(d) == TRUE

status_in(d) == d.status # Absent

\* PUT, line 1150: db.session.add(history) inserts a row and leaves the
\* rows of the table alone.  A variant that keeps one row per application,
\* the latest, is kept beside it.
merge_history(table, row) ==
    IF \E i \in 1 .. Len(table) :
           table[i].application_id = row.application_id
    THEN [i \in 1 .. Len(table) |->
             IF table[i].application_id = row.application_id THEN row
             ELSE table[i]]
    ELSE Append(table, row)

add_history(table, row) == Append(table, row)

\* PUT, lines 1141-1166: status, history row and notification go into one
\* commit; the requested status is not checked against the current one.
application_detail_put_commit(p) ==
    /\ At(p, "app_put_commit")
    /\ LET r == reqs[p]
           d == r.data
           old_status == r.loaded.status
           row == applications[r.app]
           st == IF status_in(d)
                 THEN NetChange(old_status, d.status, row.status)
                 ELSE row.status
           en == IF d.employer_notes = Absent THEN row.employer_notes
                 ELSE NetChange(r.loaded.employer_notes, d.employer_notes,
                                row.employer_notes)
       IN
       /\ applications' = [applications EXCEPT
                              ![r.app] = [row EXCEPT !.status = st,
                                                     !.employer_notes = en]]
       /\ IF status_in(d)
          THEN /\ status_history' = add_history(status_history, HistoryRow(r))
               /\ notifications' = Append(notifications, StatusNotification(r))
          ELSE UNCHANGED <<status_history, notifications>>
       /\ reqs' = [reqs EXCEPT ![p] = Respond(r, "200")]
    /\ UNCHANGED <<lst, jobs, nreq, was_closed>>

\* PUT, lines 1167-1169: the commit raises, everything is rolled back.
application_detail_put_fail(p) ==
    /\ At(p, "app_put_commit")
    /\ reqs' = [reqs EXCEPT ![p] = Respond(reqs[p], "500")]
    /\ UNCHANGED <<lst, db, nreq, was_closed>>

\* ------------------------------------------------------------ job_detail
\* GET, line 887: job.views_count += 1 on the loaded object; the UPDATE
\* writes that column of the row.  A variant that counts the view in
\* applications_count as well is kept beside it.
view_counting_twice(row, loaded) ==
    [row EXCEPT !.views_count = loaded.views_count + 1,
                !.applications_count = loaded.applications_count + 1]

view(row, loaded) ==
    [row EXCEPT !.views_count = loaded.views_count + 1]

\* GET, lines 883-887: the row is loaded; views_count + 1 is computed from it.
job_detail_get_read(p, j) ==
    /\ Free(p)
    /\ LET r == NewReq("job_get", 0, j, 0) IN
       IF j \notin JobIds THEN Answer(p, r, "404")
       ELSE Proceed(p, [r EXCEPT !.pc = "job_get_commit", !.loaded = jobs[j]])
    /\ UNCHANGED <<lst, db, was_closed>>

\* GET, lines 887-889.
job_detail_get_commit(p) ==
    /\ At(p, "job_get_commit")
    /\ jobs' = [jobs EXCEPT ![reqs[p].job] = view(@, reqs[p].loaded)]
    /\ reqs' = [reqs EXCEPT ![p] = Respond(reqs[p], "200")]
    /\ UNCHANGED <<lst, applications, status_history, notifications, nreq,
                   was_closed>>

\* GET, lines 890-891.
job_detail_get_fail(p) ==
    /\ At(p, "job_get_commit")
    /\ reqs' = [reqs EXCEPT ![p] = Respond(reqs[p], "500")]
    /\ UNCHANGED <<lst, db, nreq, was_closed>>

\* PUT and DELETE, lines 883 and 895-897 / 912-914: the row is loaded and
\* the caller must be its employer.  DELETE assigns status 'closed'.  The
\* route carries no jwt_required; where get_jwt_identity raises for that
\* reason the request ends as in job_detail_write_fail, with no write.
job_detail_write_read(p, u, j, d) ==
    /\ Free(p)
    /\ LET r == NewReq("job_write", u, j, 0) IN
       IF j \notin JobIds THEN Answer(p, r, "404")
       ELSE IF jobs[j].employer_id # u THEN Answer(p, r, "403")
       ELSE Proceed(p, [r EXCEPT !.pc = "job_write_commit", !.data = d,
                                 !.loaded = jobs[j]])
    /\ UNCHANGED <<lst, db, was_closed>>

\* PUT, lines 899-905: every key of the body that names an attribute of the
\* row is assigned, status and counters included.  DELETE, lines 916-918.
job_detail_write_commit(p) ==
    /\ At(p, "job_write_commit")
    /\ LET r == reqs[p]
           d == r.data
           row == jobs[r.job]
           st == IF d.status = Absent THEN row.status
                 ELSE NetChange(r.loaded.status, d.status, row.status)
           ac == IF d.applications_count = AbsentNum THEN row.applications_count
                 ELSE NetChange(r.loaded.applications_count,
                                d.applications_count, row.applications_count)
           vc == IF d.views_count = AbsentNum THEN row.views_count
                 ELSE NetChange(r.loaded.views_count, d.views_count,
                                row.views_count)
       IN
       /\ jobs' = [jobs EXCEPT ![r.job] =
                     [row EXCEPT !.status = st, !.applications_count = ac,
                                 !.views_count = vc]]
       /\ reqs' = [reqs EXCEPT ![p] = Respond(r, "200")]
       /\ was_closed' = IF st \in {"closed", "filled"}
                        THEN was_closed \cup {r.job} ELSE was_closed
    /\ UNCHANGED <<lst, applications, status_history, notifications, nreq>>

\* PUT, lines 906-908; DELETE, lines 919-921.
job_detail_write_fail(p) ==
    /\ At(p, "job_write_commit")
    /\ reqs' = [reqs EXCEPT ![p] = Respond(reqs[p], "500")]
    /\ UNCHANGED <<lst, db, nreq, was_closed>>

\* ------------------------------------------------------------ mark_notification_read
\* Line 1198: the caller is the user the notification is addressed to.  A
\* variant that lets every caller through is kept beside it.
recipientAny(u, n) == TRUE

recipient(u, n) == notifications[n].user_id = u

\* PUT, lines 1195-1203: the row is loaded inside the try block, so the
\* abort of get_or_404 for a missing id is caught by the handler's except
\* clause and answered 500; another user's notification is answered 403;
\* otherwise is_read and read_at are set on the loaded object, read or not.
mark_notification_read_read(p, u, n) ==
    /\ Free(p)
    /\ LET r == [NewReq("notif_read", u, 0, 0) EXCEPT !.notif = n] IN
       IF n \notin 1 .. Len(notifications) THEN Answer(p, r, "500")
       ELSE IF ~recipient(u, n) THEN Answer(p, r, "403")
       ELSE Proceed(p, [r EXCEPT !.pc = "notif_commit", !.data = utcnow,
                                 !.loaded = notifications[n]])
    /\ UNCHANGED <<lst, db, was_closed>>

\* PUT, lines 1201-1205: the columns the session changed are written.
mark_notification_read_commit(p) ==
    /\ At(p, "notif_commit")
    /\ LET r == reqs[p]
           row == notifications[r.notif]
       IN
       /\ notifications' = [notifications EXCEPT ![r.notif] =
              [row EXCEPT
                  !.is_read = NetChange(r.loaded.is_read, TRUE, row.is_read),
                  !.read_at = NetChange(r.loaded.read_at, r.data,
                                        row.read_at)]]
       /\ reqs' = [reqs EXCEPT ![p] = Respond(r, "200")]
    /\ UNCHANGED <<lst, jobs, applications, status_history, nreq, was_closed>>

\* PUT, lines 1206-1208: the commit raises; nothing is written.
mark_notification_read_fail(p) ==
    /\ At(p, "notif_commit")
    /\ reqs' = [reqs EXCEPT ![p] = Respond(reqs[p], "500")]
    /\ UNCHANGED <<lst, db, nreq, was_closed>>

\* The client has its answer; the worker serves the next request.
Return(p) ==
    /\ reqs[p].pc = "done"
    /\ reqs' = [reqs EXCEPT ![p] = IdleReq]
    /\ UNCHANGED <<lst, db, nreq, was_closed>>

\* The arguments of the requests.  Worker 2 applies to posting 1 only, and
\* posting 1 is the one that is viewed, updated and closed; the owner-only
\* routes are called by a worker and by the employer.
Callers   == {1, 3}
ApplyArgs == {<<1, 1>>, <<2, 1>>, <<1, 2>>, <<1, MissingId>>}
AppArgs   == (1 .. MaxApps) \cup {MissingId}
JobArgs   == {1, MissingId}
NotifArgs == {1, MissingId}

Next ==
    \/ \E p \in Procs, uj \in ApplyArgs : apply_job_read(p, uj[1], uj[2])
    \/ \E p \in Procs : apply_job_commit(p)
    \/ \E p \in Procs : apply_job_notify(p)
    \/ \E p \in Procs : apply_job_fail(p)
    \/ \E p \in Procs, u \in Callers, a \in AppArgs, d \in AppPutData :
          application_detail_put_read(p, u, a, d)
    \/ \E p \in Procs : application_detail_put_commit(p)
    \/ \E p \in Procs : application_detail_put_fail(p)
    \/ \E p \in Procs, u \in Users, a \in AppArgs :
          application_detail_get_read(p, u, a)
    \/ \E p \in Procs : application_detail_get_commit(p)
    \/ \E p \in Procs : application_detail_get_fail(p)
    \/ \E p \in Procs, j \in JobArgs : job_detail_get_read(p, j)
    \/ \E p \in Procs : job_detail_get_commit(p)
    \/ \E p \in Procs : job_detail_get_fail(p)
    \/ \E p \in Procs, u \in Callers, j \in JobArgs, d \in JobWriteData :
          job_detail_write_read(p, u, j, d)
    \/ \E p \in Procs : job_detail_write_commit(p)
    \/ \E p \in Procs : job_detail_write_fail(p)
    \/ \E p \in Procs, u \in Callers, n \in NotifArgs :
          mark_notification_read_read(p, u, n)
    \/ \E p \in Procs : mark_notification_read_commit(p)
    \/ \E p \in Procs : mark_notification_read_fail(p)
    \/ \E p \in Procs : Return(p)

Spec == Init /\ [][Next]_vars

\* ------------------------------------------------------------ listings
\* request.args: a function from the keys of the query string to their
\* values.  Opt gives the ways to leave a key out or to supply it.
Opt(k, vals) == {<<>>} \cup {k :> v : v \in vals}

Has(args, k) == k \in DOMAIN args

\* 'if value:' on request.args.get(key): the key is there and not empty.
Given(args, k) == Has(args, k) /\ args[k] # <<>>

\* float() and int() of a value of the query string.  The values in use are
\* runs of decimal digits, which both parse, and text that neither parses.
DigitVal ==
    ("0" :> 0) @@ ("1" :> 1) @@ ("2" :> 2) @@ ("3" :> 3) @@ ("4" :> 4)
    @@ ("5" :> 5) @@ ("6" :> 6) @@ ("7" :> 7) @@ ("8" :> 8) @@ ("9" :> 9)

Parses(str) ==
    /\ str # <<>>
    /\ \A i \in 1 .. Len(str) : str[i] \in DOMAIN DigitVal

RECURSIVE Number(_)
Number(str) ==
    IF str = <<>> THEN 0
    ELSE 10 * Number(SubSeq(str, 1, Len(str) - 1)) + DigitVal[str[Len(str)]]

\* column LIKE pattern: '%' stands for any run of characters and '_' for
\* any one character.
RECURSIVE Like(_, _)
Like(str, pat) ==
    IF pat = <<>> THEN str = <<>>
    ELSE IF Head(pat) = "%"
    THEN \/ Like(str, Tail(pat))
         \/ str # <<>> /\ Like(Tail(str), pat)
    ELSE /\ str # <<>>
         /\ Head(pat) = "_" \/ Head(pat) = Head(str)
         /\ Like(Tail(str), Tail(pat))

\* Column.contains(value): column LIKE '%' || value || '%', the value not
\* escaped.
contains(col, value) == Like(col, <<"%">> \o value \o <<"%">>)

\* The value of a numeric key raises in float() or int(): the except branch.
Raises(args, keys) ==
    \E k \in keys : Given(args, k) /\ ~Parses(args[k])

\* int(request.args.get('page', 1)) raises when the key is there and does
\* not parse, the empty value included.
PageRaises(args) ==
    \E k \in {"page", "per_page"} : Has(args, k) /\ ~Parses(args[k])

PageOf(args)    == IF Has(args, "page") THEN Number(args["page"]) ELSE 1
PerPageOf(args) ==
    IF Has(args, "per_page") THEN Number(args["per_page"]) ELSE DefaultPerPage

\* The rows that ORDER BY key DESC may give: every arrangement of the rows
\* in which the key, given for every row of the table, does not rise.  The statement names no second key, so
\* the database is free in the order of rows with equal keys.
Ordered(rows, key) ==
    LET n == Cardinality(rows) IN
    { ord \in [1 .. n -> rows] :
        /\ \A i, k \in 1 .. n : i # k => ord[i] # ord[k]
        /\ \A i, k \in 1 .. n : i < k => key[ord[i]] >= key[ord[k]] }

\* query.paginate(page, per_page, error_out=False) and the answer built from
\* it: LIMIT per_page OFFSET (page - 1) * per_page of the ordered rows, the
\* count of all rows and the number of pages.  A page below 1 is read as
\* page 1.  A variant that answers 404 for a page without rows, as
\* error_out=True does, is kept beside it.
paginate_error_out(o, args, ord) ==
    LET page == IF PageOf(args) < 1 THEN 1 ELSE PageOf(args)
        per_page == PerPageOf(args)
        n == Len(ord)
        first == (page - 1) * per_page + 1
        last == IF page * per_page < n THEN page * per_page ELSE n
    IN  IF first > last /\ page # 1
        THEN [op |-> o, args |-> args, resp |-> "404", items |-> <<>>,
              total |-> 0, pages |-> 0, current_page |-> 0]
        ELSE [op |-> o, args |-> args, resp |-> "200",
              items |-> SubSeq(ord, first, last),
              total |-> n,
              pages |-> (n + per_page - 1) \div per_page,
              current_page |-> PageOf(args)]

paginate(o, args, ord) ==
    LET page == IF PageOf(args) < 1 THEN 1 ELSE PageOf(args)
        per_page == PerPageOf(args)
        n == Len(ord)
        first == (page - 1) * per_page + 1
        last == IF page * per_page < n THEN page * per_page ELSE n
    IN  [op |-> o, args |-> args, resp |-> "200",
         items |-> SubSeq(ord, first, last),
         total |-> n,
         pages |-> (n + per_page - 1) \div per_page,
         current_page |-> PageOf(args)]

\* The except branch of a listing: 500 with the text of the exception.
ListingError(o, args) ==
    [NoListing EXCEPT !.op = o, !.args = args, !.resp = "500"]

\* jobs(), lines 785-812: the active postings that pass every filter of the
\* query string.
JobFilter(j, args) ==
    LET row == jobs[j] IN
    /\ row.status = "active"
    /\ Given(args, "type") => row.job_type = args["type"]
    /\ Given(args, "category") => row.category = args["category"]
    /\ Given(args, "keyword") =>
          \/ contains(row.title, args["keyword"])
          \/ contains(row.description, args["keyword"])
          \/ contains(row.skills_required, args["keyword"])
    /\ Given(args, "location") => contains(row.location, args["location"])
    /\ (Has(args, "remote") /\ args["remote"] = "true") => row.remote_ok
    /\ Given(args, "min_salary") =>
          row.salary_min >= Number(args["min_salary"])
    /\ Given(args, "max_salary") =>
          row.salary_max <= Number(args["max_salary"])

\* jobs(), lines 814-820: the column of ORDER BY ... DESC.
JobSortKey(j, args) ==
    IF Has(args, "sort") /\ args["sort"] = "salary" THEN jobs[j].salary_max
    ELSE IF Has(args, "sort") /\ args["sort"] = "applications"
    THEN jobs[j].applications_count
    ELSE jobs[j].created_at

\* get_workers(), lines 987-1004.
WorkerFilter(w, args) ==
    LET row == worker_profiles[w] IN
    /\ Given(args, "user_id") => row.user_id = Number(args["user_id"])
    /\ Given(args, "category") => row.primary_category = args["category"]
    /\ Given(args, "location") => contains(row.location, args["location"])
    /\ Given(args, "min_rate") => row.hourly_rate >= Number(args["min_rate"])
    /\ Given(args, "max_rate") => row.hourly_rate <= Number(args["max_rate"])
    /\ Given(args, "min_experience") =>
          row.experience_years >= Number(args["min_experience"])
    /\ (Has(args, "verified") /\ args["verified"] = "true") => row.verified
    /\ (Has(args, "top_rated") /\ args["top_rated"] = "true") => row.top_rated
    /\ Given(args, "skills") => contains(row.skills, args["skills"])

\* get_workers(), lines 1006-1014: the column of ORDER BY, negated where the
\* order is ascending; with any other value of 'sort' there is no ORDER BY
\* and every arrangement of the rows may come back.
WorkerSortKey(w, args) ==
    LET sort_by == IF Has(args, "sort") THEN args["sort"] ELSE "rating" IN
    IF sort_by = "rating" THEN worker_profiles[w].rating
    ELSE IF sort_by = "experience" THEN worker_profiles[w].experience_years
    ELSE IF sort_by = "rate_low" THEN 0 - worker_profiles[w].hourly_rate
    ELSE IF sort_by = "rate_high" THEN worker_profiles[w].hourly_rate
    ELSE 0

\* The client asks for a listing, and then for other pages of the same
\* listing.
SamePaging(a, b) ==
    \A k \in (DOMAIN a \cup DOMAIN b) \ {"page"} :
        Has(a, k) /\ Has(b, k) /\ a[k] = b[k]

PagesThrough(o, args) ==
    \/ listing.op = "none"
    \/ listing.op = o /\ SamePaging(listing.args, args)

\* GET /api/jobs, lines 783-835.
jobs_get(args) ==
    /\ PagesThrough("jobs", args)
    /\ IF Raises(args, {"min_salary", "max_salary"}) \/ PageRaises(args)
       THEN listing' = ListingError("jobs", args)
       ELSE \E ord \in Ordered({j \in DOMAIN jobs : JobFilter(j, args)},
                               [j \in DOMAIN jobs |-> JobSortKey(j, args)]) :
               listing' = paginate("jobs", args, ord)
    /\ UNCHANGED <<db, reqs, nreq, was_closed, worker_profiles>>

\* GET /api/workers, lines 972-1029.
get_workers(args) ==
    /\ PagesThrough("workers", args)
    /\ IF \/ Raises(args, {"user_id", "min_rate", "max_rate",
                           "min_experience"})
          \/ PageRaises(args)
       THEN listing' = ListingError("workers", args)
       ELSE \E ord \in Ordered({w \in DOMAIN worker_profiles :
                                   WorkerFilter(w, args)},
                               [w \in DOMAIN worker_profiles |->
                                   WorkerSortKey(w, args)]) :
               listing' = paginate("workers", args, ord)
    /\ UNCHANGED <<db, reqs, nreq, was_closed, worker_profiles>>

\* The query strings of the listings: the filters alone, and orders and
\* pages with one filter.  One page size is above the size of every table.
PageArgs ==
    { a @@ b : a \in Opt("page", {<<"1">>, <<"2">>, <<"3">>, <<"4">>}),
               b \in Opt("per_page", {<<"1">>, <<"2">>, <<"9">>}) }

JobsArgs ==
    { a @@ b @@ c @@ d @@ e :
        a \in Opt("type", {<<"f">>}) \cup Opt("category", {<<"e">>})
              \cup Opt("remote", {"true"}),
        b \in Opt("keyword", {<<"a">>}),
        c \in Opt("location", {<<"b">>, <<"_">>}),
        d \in Opt("min_salary", {<<"2">>, <<"x">>}),
        e \in Opt("max_salary", {<<"2">>}) }
    \cup { a @@ b @@ c :
             a \in Opt("sort", {"salary", "applications"}),
             b \in PageArgs \cup Opt("page", {<<"x">>}),
             c \in Opt("location", {<<"b">>}) }

WorkersArgs ==
    { a @@ b @@ c @@ d :
        a \in Opt("user_id", {<<"1">>, <<"x">>}),
        b \in Opt("category", {<<"e">>}) \cup Opt("verified", {"true"})
              \cup Opt("top_rated", {"true"}),
        c \in Opt("location", {<<"b">>, <<"_">>}),
        d \in Opt("skills", {<<"a">>}) }
    \cup { a @@ b @@ c :
             a \in Opt("min_rate", {<<"2">>}),
             b \in Opt("max_rate", {<<"2">>}),
             c \in Opt("min_experience", {<<"2">>, <<"1", "0">>}) }
    \cup { a @@ b :
             a \in Opt("sort", {"experience", "rate_low", "rate_high",
                               "name"}),
             b \in PageArgs }

\* The tables that are listed: postings as seeded, updated, applied to and
\* closed, and profiles as seeded and edited.
ListedJobs ==
    { Job(3, "active"),
      [Job(3, "active") EXCEPT !.salary_min = 2, !.location = <<"b">>,
                               !.remote_ok = TRUE, !.title = <<"b">>],
      [Job(3, "active") EXCEPT !.salary_max = 2, !.applications_count = 1,
                               !.category = <<"p">>],
      [Job(3, "closed") EXCEPT !.salary_min = 2] }

ListedWorkers ==
    { WorkerProfile(0),
      [WorkerProfile(0) EXCEPT !.location = <<"b">>, !.hourly_rate = 3,
                               !.top_rated = TRUE, !.skills = <<"b">>],
      [WorkerProfile(0) EXCEPT !.primary_category = <<"p">>,
                               !.hourly_rate = 1, !.experience_years = 3,
                               !.verified = FALSE, !.rating = 5] }

ListingInit ==
    /\ \/ /\ \E t \in [1 .. MaxRows -> ListedJobs] :
                jobs = [j \in 1 .. MaxRows |-> [t[j] EXCEPT !.created_at = j]]
          /\ worker_profiles = <<>>
       \/ /\ jobs = <<>>
          /\ \E t \in [1 .. MaxRows -> ListedWorkers] :
                worker_profiles =
                    [w \in 1 .. MaxRows |-> [t[w] EXCEPT !.user_id = w]]
    /\ applications = <<>>
    /\ status_history = <<>>
    /\ notifications = <<>>
    /\ reqs = [p \in Procs |-> IdleReq]
    /\ nreq = 0
    /\ was_closed = {}
    /\ listing = NoListing

ListingNext ==
    \/ \E args \in JobsArgs : jobs_get(args)
    \/ \E args \in WorkersArgs : get_workers(args)

ListingSpec == ListingInit /\ [][ListingNext]_vars

\* The read routes of postings and profiles on the tables of a running
\* server: the two listings and GET /api/jobs/<id>, which may interleave.
ReadNext ==
    \/ \E args \in JobsArgs : jobs_get(args)
    \/ \E args \in WorkersArgs : get_workers(args)
    \/ \E p \in Procs, j \in JobArgs : job_detail_get_read(p, j)
    \/ \E p \in Procs : job_detail_get_commit(p)
    \/ \E p \in Procs : job_detail_get_fail(p)
    \/ \E p \in Procs : Return(p)

ReadSpec == Init /\ [][ReadNext]_vars

\* ------------------------------------------------------------ properties
\* The lifecycle the properties are stated against: the terminal statuses
\* and the table of permitted transitions.
Terminal == {"hired", "rejected", "withdrawn"}

TransitionTable ==
    {<<"pending", "reviewed">>, <<"reviewed", "interview_scheduled">>,
     <<"interview_scheduled", "hired">>, <<"interview_scheduled", "rejected">>}
    \cup {<<s, "withdrawn">> : s \in AppStatuses \ Terminal}

AppIds == 1 .. Len(applications)

\* The status-history trail of application a, oldest first.
HistoryOf(a) ==
    SelectSeq(status_history, LAMBDA h : h.application_id = a)

\* The application rows of one (posting, applicant) pair.
RowsOf(j, u) ==
    {a \in AppIds : applications[a].job_id = j /\ applications[a].user_id = u}

Live(a) == applications[a].status # "withdrawn"

\* A request that has just been answered with the given code.
AnsweredWith(p, o, code) ==
    reqs[p].pc = "done" /\ reqs[p].op = o /\ reqs[p].resp = code

\* C1: of the concurrent submits of one (posting, applicant) pair exactly one
\* succeeds and the others get the duplicate error: a submit that is
\* answered 201 has inserted the only row of its pair.
C1_OneSubmitPerPairSucceeds ==
    \A p \in Procs :
        AnsweredWith(p, "apply", "201") =>
            RowsOf(reqs[p].job, reqs[p].user) = {reqs[p].app}

\* C2: in every state, the applications counter of every posting is the
\* number of its application rows that are not withdrawn.
C2_CounterIsLiveApplications ==
    \A j \in JobIds :
        jobs[j].applications_count =
            Cardinality({a \in AppIds : applications[a].job_id = j /\ Live(a)})

\* C3: the status of an application changes only along the lifecycle table;
\* any other requested pair is rejected and leaves the status as it is.
C3_OnlyTableTransitions ==
    [][\A a \in AppIds :
          applications'[a].status # applications[a].status =>
              <<applications[a].status, applications'[a].status>>
                  \in TransitionTable]_vars

\* C4: once an application is hired, rejected or withdrawn, its status never
\* changes again and its history trail gets no further record.
C4_TerminalIsFinal ==
    [][\A a \in AppIds :
          applications[a].status \in Terminal =>
              /\ applications'[a].status = applications[a].status
              /\ Len(HistoryOf(a)') = Len(HistoryOf(a))]_vars

\* C5: in every committed state the status of an application is the
\* to_status of its latest history record, or pending when it has none.
C5_StatusAgreesWithHistory ==
    \A a \in AppIds :
        LET h == HistoryOf(a) IN
        applications[a].status =
            IF Len(h) = 0 THEN "pending" ELSE h[Len(h)].to_status

\* C6: the history trail of an application is a chain: the first record
\* starts from pending and each later one from the to_status of the record
\* committed before it, also when transition requests run concurrently.
C6_HistoryIsChain ==
    \A a \in AppIds :
        LET h == HistoryOf(a) IN
        \A i \in 1 .. Len(h) :
            h[i].from_status = IF i = 1 THEN "pending" ELSE h[i - 1].to_status

\* C7: submit is all or nothing: a submit that is answered with the storage
\* error has left no application row behind.
C7_FailedSubmitLeavesNothing ==
    \A p \in Procs :
        AnsweredWith(p, "apply", "500") => reqs[p].app \notin AppIds

\* C8: every (posting, applicant) pair has at most one application row that
\* is not withdrawn.
C8_OneLiveApplicationPerPair ==
    \A j \in JobIds, u \in Users :
        Cardinality({a \in RowsOf(j, u) : Live(a)}) <= 1

\* C9: a successful transition appends exactly one history record: from the
\* status the application had when the call read it, to the requested
\* status, with the caller and the note; when no other transition was
\* committed during the call, that is the step from the stored status to
\* the new stored status.
C9_TransitionAppendsOneRecord ==
    [][\A p \in Procs :
          (/\ reqs[p].pc = "app_put_commit"
           /\ reqs'[p].resp = "200"
           /\ reqs[p].data.status # Absent) =>
              LET r   == reqs[p]
                  rec == [application_id |-> r.app,
                          from_status    |-> r.loaded.status,
                          to_status      |-> r.data.status,
                          changed_by_id  |-> r.user,
                          notes          |-> r.data.notes]
              IN
              /\ status_history' = Append(status_history, rec)
              /\ applications[r.app].status = r.loaded.status =>
                    /\ rec.from_status = applications[r.app].status
                    /\ rec.to_status = applications'[r.app].status]_vars

\* C9, the case: pending, reviewed, interview_scheduled, hired in sequence
\* has left exactly the three records of the chain.
C9_Witness ==
    /\ Len(applications) >= 1
    /\ applications[1].status = "hired"
    /\ [i \in 1 .. Len(status_history) |->
           <<status_history[i].application_id, status_history[i].from_status,
             status_history[i].to_status, status_history[i].changed_by_id>>]
       = << <<1, "pending", "reviewed", 3>>,
            <<1, "reviewed", "interview_scheduled", 3>>,
            <<1, "interview_scheduled", "hired", 3>> >>

\* C10: the commit of a submit appends one pending application for
\* (posting, caller), raises that posting's counter by exactly 1 and leaves
\* every other posting and application as they were; the submit is then
\* answered 201 with one more notification, addressed to the posting's owner.
C10_SubmitEffect ==
    [][\A p \in Procs :
          LET r == reqs[p] IN
          /\ (r.pc = "apply_commit" /\ reqs'[p].pc = "apply_notify") =>
                /\ applications' =
                      Append(applications,
                             [job_id |-> r.job, user_id |-> r.user,
                              status |-> "pending", employer_notes |-> Absent,
                              viewed_by_employer |-> FALSE,
                              viewed_at |-> NoTime])
                /\ jobs'[r.job].applications_count =
                      jobs[r.job].applications_count + 1
                /\ \A k \in JobIds \ {r.job} : jobs'[k] = jobs[k]
          /\ (r.pc = "apply_notify" /\ reqs'[p].resp = "201") =>
                /\ Len(notifications') = Len(notifications) + 1
                /\ notifications'[Len(notifications')].user_id =
                      jobs[r.job].employer_id]_vars

\* A worker takes this request in the step: it was idle and now holds it.
Takes(p, o) == reqs[p].pc = "idle" /\ reqs'[p].op = o

\* The latest history record of application a is (from, to).
LatestIs(a, from, to) ==
    LET h == HistoryOf(a) IN
    /\ Len(h) > 0
    /\ h[Len(h)].from_status = from
    /\ h[Len(h)].to_status = to

\* C11: the owner's transition of a pending application to rejected commits
\* status rejected with one history record (pending, rejected) and one
\* notification for the applicant; after it, a transition request to
\* interview_scheduled is refused: the handler does not go on to commit it.
C11_RejectThenInterviewFails ==
    [][/\ \A p \in Procs :
             (/\ reqs[p].pc = "app_put_commit"
              /\ reqs'[p].resp = "200"
              /\ reqs[p].data.status = "rejected"
              /\ reqs[p].loaded.status = "pending") =>
                 /\ applications'[reqs[p].app].status = "rejected"
                 /\ Len(status_history') = Len(status_history) + 1
                 /\ LatestIs(reqs[p].app, "pending", "rejected")'
                 /\ Len(notifications') = Len(notifications) + 1
                 /\ notifications'[Len(notifications')].user_id =
                       applications[reqs[p].app].user_id
       /\ \A p \in Procs :
             (/\ Takes(p, "app_put")
              /\ reqs'[p].app \in AppIds
              /\ applications[reqs'[p].app].status = "rejected"
              /\ LatestIs(reqs'[p].app, "pending", "rejected")
              /\ reqs'[p].pc = "app_put_commit") =>
                 reqs'[p].data.status # "interview_scheduled"]_vars

\* C12, as stated: a submit of a pair that has an application that is not
\* withdrawn gets the duplicate error and leaves every table as it is.
C12_DuplicateSubmitRejected ==
    [][\A p \in Procs :
          (/\ Takes(p, "apply")
           /\ \E a \in RowsOf(reqs'[p].job, reqs'[p].user) : Live(a)) =>
              /\ reqs'[p].resp = "400_duplicate"
              /\ UNCHANGED db]_vars

\* C12, amended: such a submit fails and leaves every table as it is, with
\* the duplicate error when the posting is active and with the
\* posting-closed error when it is not.
C12_DuplicateSubmitRejectedWhenActive ==
    [][\A p \in Procs :
          (/\ Takes(p, "apply")
           /\ \E a \in RowsOf(reqs'[p].job, reqs'[p].user) : Live(a)) =>
              /\ reqs'[p].resp =
                    IF jobs[reqs'[p].job].status = "active"
                    THEN "400_duplicate" ELSE "400_closed"
              /\ UNCHANGED db]_vars

\* C12, the case: a submit was answered with the duplicate error while the
\* pair has an application that is past pending and not withdrawn.
C12_Witness ==
    \E p \in Procs :
        /\ AnsweredWith(p, "apply", "400_duplicate")
        /\ \E a \in RowsOf(reqs[p].job, reqs[p].user) :
              Live(a) /\ applications[a].status # "pending"

\* C13: when all applications of a pair are withdrawn and the posting is
\* active, a new submit of the pair is accepted (the handler goes on to
\* insert the new pending application).
C13_ResubmitAfterWithdrawal ==
    [][\A p \in Procs :
          (/\ Takes(p, "apply")
           /\ reqs'[p].job \in JobIds
           /\ jobs[reqs'[p].job].status = "active"
           /\ RowsOf(reqs'[p].job, reqs'[p].user) # {}
           /\ \A a \in RowsOf(reqs'[p].job, reqs'[p].user) : ~Live(a)) =>
              reqs'[p].pc = "apply_commit"]_vars

\* C14: a submit to a posting that is not active gets the posting-closed
\* error; no application is created, the counter and the notifications stay.
C14_SubmitToClosedRejected ==
    [][\A p \in Procs :
          (/\ Takes(p, "apply")
           /\ reqs'[p].job \in JobIds
           /\ jobs[reqs'[p].job].status # "active") =>
              /\ reqs'[p].resp = "400_closed"
              /\ UNCHANGED db]_vars

\* C14, the case: a submit to a posting that is not active was answered.
C14_Witness ==
    \E p \in Procs :
        /\ reqs[p].pc = "done" /\ reqs[p].op = "apply"
        /\ reqs[p].job \in JobIds
        /\ jobs[reqs[p].job].status # "active"

\* C15: once the status of a posting has been closed or filled, no later
\* submit for it is accepted, whatever updates, closes and views happened in
\* between; and no step removes an application record or changes the
\* posting it refers to.
C15_ClosedIsFinalForSubmits ==
    [][/\ \A p \in Procs :
             (Takes(p, "apply") /\ reqs'[p].job \in was_closed) =>
                 reqs'[p].resp = "400_closed"
       /\ Len(applications') >= Len(applications)
       /\ \A a \in AppIds :
             applications'[a].job_id = applications[a].job_id]_vars

\* C16: a transition request by a caller who is not the owner of the
\* application's posting gets the unauthorized error; status, employer
\* notes, history and notifications stay as they are.
C16_NonOwnerTransitionRejected ==
    [][\A p \in Procs :
          (/\ Takes(p, "app_put")
           /\ reqs'[p].app \in AppIds
           /\ jobs[applications[reqs'[p].app].job_id].employer_id
                 # reqs'[p].user) =>
              /\ reqs'[p].resp = "403"
              /\ UNCHANGED db]_vars

\* C16, the case: the applicant's own transition request was answered.
C16_Witness ==
    \E p \in Procs :
        /\ AnsweredWith(p, "app_put", "403")
        /\ reqs[p].app \in AppIds
        /\ applications[reqs[p].app].user_id = reqs[p].user

\* C17: only the applicant withdraws an application: every history record
\* with to_status withdrawn was made by the application's applicant.
C17_OnlyApplicantWithdraws ==
    \A i \in 1 .. Len(status_history) :
        status_history[i].to_status = "withdrawn" =>
            status_history[i].changed_by_id =
                applications[status_history[i].application_id].user_id

\* C18: a committed transition creates exactly one notification, addressed
\* to the applicant, in the commit that appends the history record; a
\* transition request by an unauthorized actor, or out of a terminal status
\* (an invalid transition), creates none.
C18_TransitionNotifiesApplicant ==
    [][\A p \in Procs :
          /\ (/\ reqs[p].pc = "app_put_commit"
              /\ reqs'[p].resp = "200"
              /\ reqs[p].data.status # Absent
              /\ reqs[p].loaded.status \notin Terminal) =>
                 /\ notifications' =
                       Append(notifications,
                              [user_id |-> applications[reqs[p].app].user_id,
                               type |-> "application_status",
                               link |-> reqs[p].app,
                               is_read |-> FALSE, read_at |-> NoTime])
                 /\ Len(status_history') = Len(status_history) + 1
          /\ (/\ reqs'[p].op = "app_put"
              /\ reqs[p].pc # "done"
              /\ reqs'[p].resp \in {"403", "404", "500"})
                 => notifications' = notifications
          /\ (/\ reqs[p].pc = "app_put_commit"
              /\ reqs[p].data.status # Absent
              /\ reqs[p].loaded.status \in Terminal)
                 => notifications' = notifications]_vars

\* C19: the first view of an application by the posting's owner sets
\* viewed_by_employer and stamps viewed_at; from then on no step, of a view
\* made after it or at the same time, changes either of the two; and a view
\* by the owner of an application already viewed is answered without error.
C19_MarkViewedIdempotent ==
    [][/\ \A p \in Procs :
             /\ (reqs[p].pc = "app_get_commit" /\ reqs'[p].resp = "200") =>
                    /\ applications'[reqs[p].app].viewed_by_employer
                    /\ applications'[reqs[p].app].viewed_at # NoTime
             /\ (/\ Takes(p, "app_get")
                 /\ reqs'[p].app \in AppIds
                 /\ applications[reqs'[p].app].viewed_by_employer
                 /\ jobs[applications[reqs'[p].app].job_id].employer_id
                       = reqs'[p].user) =>
                    reqs'[p].resp = "200"
       /\ \A a \in AppIds :
             applications[a].viewed_by_employer =>
                 /\ applications'[a].viewed_by_employer
                 /\ applications'[a].viewed_at = applications[a].viewed_at]_vars

\* C20: the views counter is incremented atomically: every committed view
\* of a posting leaves its views counter exactly one higher.
C20_ViewIncrementsByOne ==
    [][\A p \in Procs :
          (reqs[p].pc = "job_get_commit" /\ reqs'[p].resp = "200") =>
              jobs'[reqs[p].job].views_count =
                  jobs[reqs[p].job].views_count + 1]_vars

\* C21: when two submits of different applicants to one posting have read
\* the same counter and one has committed, the commit of the other still
\* leaves the applications counter exactly one higher than it found it.
C21_ConcurrentSubmitsCount ==
    [][\A p, q \in Procs :
          (/\ p # q
           /\ reqs[p].pc = "apply_commit" /\ reqs'[p].pc = "apply_notify"
           /\ reqs[q].pc = "apply_notify"
           /\ reqs[q].job = reqs[p].job /\ reqs[q].user # reqs[p].user) =>
              jobs'[reqs[p].job].applications_count =
                  jobs[reqs[p].job].applications_count + 1]_vars

\* C22: no step leaves the views counter of a posting negative, and only
\* the commit of a view of that posting changes it.
C22_ViewsOnlyByView ==
    [][\A j \in JobIds :
          /\ jobs'[j].views_count >= 0
          /\ jobs'[j].views_count # jobs[j].views_count =>
                 \E p \in Procs : /\ reqs[p].pc = "job_get_commit"
                                  /\ reqs[p].job = j
                                  /\ reqs'[p].resp = "200"]_vars

\* C23: the commit of a posting update leaves the posting's status, its
\* applications and views counters and its owner as they were, whatever the
\* body of the update names.
C23_UpdateKeepsProtectedFields ==
    [][\A p \in Procs :
          (/\ reqs[p].pc = "job_write_commit"
           /\ reqs[p].data \in JobPutData
           /\ reqs'[p].resp = "200") =>
              LET j == reqs[p].job IN
              /\ jobs'[j].status = jobs[j].status
              /\ jobs'[j].applications_count = jobs[j].applications_count
              /\ jobs'[j].views_count = jobs[j].views_count
              /\ jobs'[j].employer_id = jobs[j].employer_id]_vars

\* ------------------------------------------------------------ listing properties
\* value occurs in str, character for character.
IsSubstring(value, str) ==
    \E i \in 0 .. Len(str) - Len(value) :
        SubSeq(str, i + 1, i + Len(value)) = value

ItemsOf(l) == {l.items[i] : i \in 1 .. Len(l.items)}

NumericKeys ==
    {"min_salary", "max_salary", "min_rate", "max_rate", "min_experience",
     "page", "per_page"}

\* A numeric key of the query string carries text that is not a number.
Unparseable(args) ==
    \E k \in NumericKeys \cap DOMAIN args :
        args[k] # <<>> /\ ~Parses(args[k])

\* The rows a listing counts, and the key it orders them by.
Matching(l) ==
    IF l.op = "jobs" THEN {j \in DOMAIN jobs : JobFilter(j, l.args)}
    ELSE {w \in DOMAIN worker_profiles : WorkerFilter(w, l.args)}

SortKeyOf(l, id) ==
    IF l.op = "jobs" THEN JobSortKey(id, l.args) ELSE WorkerSortKey(id, l.args)

PageCount(n, per_page) == (n + per_page - 1) \div per_page

\* The predicates of a posting search: exact type and category, keyword and
\* location as substrings, the remote flag, and the salary bounds as
\* overlap tests.
JobPredicates(row, args) ==
    /\ Given(args, "type") => row.job_type = args["type"]
    /\ Given(args, "category") => row.category = args["category"]
    /\ Given(args, "keyword") =>
          \/ IsSubstring(args["keyword"], row.title)
          \/ IsSubstring(args["keyword"], row.description)
          \/ IsSubstring(args["keyword"], row.skills_required)
    /\ Given(args, "location") => IsSubstring(args["location"], row.location)
    /\ (Has(args, "remote") /\ args["remote"] = "true") => row.remote_ok
    /\ Given(args, "min_salary") =>
          row.salary_max >= Number(args["min_salary"])
    /\ Given(args, "max_salary") =>
          row.salary_min <= Number(args["max_salary"])

\* C24: every posting that a posting search returns is active and satisfies
\* every predicate that the query supplies.
C24_ResultsActiveAndMatching ==
    (listing.op = "jobs" /\ listing.resp = "200") =>
        \A j \in ItemsOf(listing) :
            /\ jobs[j].status = "active"
            /\ JobPredicates(jobs[j], listing.args)

\* C25: a posting search with salary bounds alone returns exactly the
\* active postings whose salary_max is at least the supplied salary_min and
\* whose salary_min is at most the supplied salary_max.
C25_SalaryFiltersOverlap ==
    (/\ listing.op = "jobs" /\ listing.resp = "200"
     /\ DOMAIN listing.args \subseteq {"min_salary", "max_salary"}) =>
        ItemsOf(listing) =
            {j \in DOMAIN jobs :
                /\ jobs[j].status = "active"
                /\ Given(listing.args, "min_salary") =>
                      jobs[j].salary_max >= Number(listing.args["min_salary"])
                /\ Given(listing.args, "max_salary") =>
                      jobs[j].salary_min <= Number(listing.args["max_salary"])}

\* The predicates of a profile search.
WorkerPredicates(row, args) ==
    /\ Given(args, "user_id") => row.user_id = Number(args["user_id"])
    /\ Given(args, "category") => row.primary_category = args["category"]
    /\ Given(args, "location") => IsSubstring(args["location"], row.location)
    /\ Given(args, "min_rate") => row.hourly_rate >= Number(args["min_rate"])
    /\ Given(args, "max_rate") => row.hourly_rate <= Number(args["max_rate"])
    /\ Given(args, "min_experience") =>
          row.experience_years >= Number(args["min_experience"])
    /\ (Has(args, "verified") /\ args["verified"] = "true") => row.verified
    /\ (Has(args, "top_rated") /\ args["top_rated"] = "true") => row.top_rated
    /\ Given(args, "skills") => IsSubstring(args["skills"], row.skills)

\* C26: a profile search counts exactly the profiles that satisfy every
\* supplied predicate, and returns only such profiles.
C26_WorkersExactlyMatching ==
    (listing.op = "workers" /\ listing.resp = "200") =>
        LET sat == {w \in DOMAIN worker_profiles :
                       WorkerPredicates(worker_profiles[w], listing.args)}
        IN  /\ listing.total = Cardinality(sat)
            /\ ItemsOf(listing) \subseteq sat

\* C27: a listing whose query carries a numeric option that does not parse
\* is answered with a client error.
C27_UnparseableIsClientError ==
    (listing.op # "none" /\ Unparseable(listing.args)) =>
        listing.resp = "400"

\* C28: every page of a listing holds the rows its number and size call
\* for, and two different pages of one listing, fetched one after the
\* other from the same tables, share no row and report the same total.
C28_PagesPartition ==
    [][(listing'.op # "none" /\ listing'.resp = "200") =>
          /\ LET rest == listing'.total
                           - (PageOf(listing'.args) - 1) * PerPageOf(listing'.args)
                 size == IF rest < 0 THEN 0
                         ELSE IF rest < PerPageOf(listing'.args) THEN rest
                         ELSE PerPageOf(listing'.args)
             IN  Cardinality(ItemsOf(listing')) = size
          /\ (/\ listing.op = listing'.op /\ listing.resp = "200"
              /\ SamePaging(listing.args, listing'.args)
              /\ PageOf(listing.args) # PageOf(listing'.args)) =>
                 /\ ItemsOf(listing) \cap ItemsOf(listing') = {}
                 /\ listing'.total = listing.total]_vars

\* C29: in every listing result, rows with equal sort keys come in the
\* order of their ids.
C29_TiesByIdentity ==
    (listing.op # "none" /\ listing.resp = "200") =>
        \A i, k \in 1 .. Len(listing.items) :
            (/\ i < k
             /\ SortKeyOf(listing, listing.items[i])
                   = SortKeyOf(listing, listing.items[k])) =>
                listing.items[i] < listing.items[k]

\* C30: a listing asked for a page past the last one is answered 200 with
\* no items, the count of all matching rows and the number of pages.
C30_PageBeyondIsEmpty ==
    (/\ listing.op # "none"
     /\ ~Unparseable(listing.args)
     /\ ~Raises(listing.args, {"user_id"})
     /\ PageOf(listing.args)
           > PageCount(Cardinality(Matching(listing)), PerPageOf(listing.args)))
        => /\ listing.resp = "200"
           /\ listing.items = <<>>
           /\ listing.total = Cardinality(Matching(listing))
           /\ listing.pages = PageCount(listing.total, PerPageOf(listing.args))

\* C30, the case: page 3 was asked of a listing of two pages.
C30_Witness ==
    /\ listing.op = "jobs"
    /\ listing.resp = "200"
    /\ listing.pages = 2
    /\ listing.current_page = 3

\* ------------------------------------------------------------ C31..C38
\* C31: a listing returns no more rows than the page-size cap, whatever
\* per_page the caller asks for, and no more than DefaultPerPage rows when
\* the caller asks for none.  The tables here hold MaxRows rows at most, so
\* the cap is taken one below that: a cap that a table can exceed.
C31_PageSizeCapped ==
    listing.resp = "200" =>
        Len(listing.items) <= (IF Has(listing.args, "per_page")
                               THEN MaxRows - 1 ELSE DefaultPerPage)

C33_MarkReadIdempotent ==
    [][\A n \in 1 .. Len(notifications) :
          notifications[n].is_read =>
             /\ notifications'[n].is_read
             /\ notifications'[n].read_at = notifications[n].read_at]_vars

\* C34: a notification is changed only by its recipient marking it read.
\* No step removes a notification; a notification changes only in the
\* commit of a mark-read request of the user it is addressed to; and a
\* mark-read request of another user is answered 403 by a step that changes
\* no table.  Submitting, changing status and viewing only add rows.
C34_OnlyRecipientMarksRead ==
    [][/\ Len(notifications') >= Len(notifications)
       /\ \A n \in 1 .. Len(notifications) :
             notifications'[n] # notifications[n] =>
                \E p \in Procs :
                    /\ reqs[p].pc = "notif_commit"
                    /\ reqs[p].notif = n
                    /\ reqs[p].user = notifications[n].user_id
                    /\ reqs'[p].resp = "200"
       /\ \A p \in Procs :
             (/\ Takes(p, "notif_read")
              /\ reqs'[p].notif \in 1 .. Len(notifications)
              /\ notifications[reqs'[p].notif].user_id # reqs'[p].user) =>
                 /\ reqs'[p].resp = "403"
                 /\ UNCHANGED db]_vars

\* Another user's mark-read request has been rejected while the table
\* holds a notification its recipient has marked read and one added since.
C34_Witness ==
    /\ \E p \in Procs : /\ AnsweredWith(p, "notif_read", "403")
                        /\ reqs[p].notif \in 1 .. Len(notifications)
    /\ Len(notifications) >= 2
    /\ notifications[1].is_read

C36_NoSelfTransitionRecorded ==
    \A i \in 1 .. Len(status_history) :
        status_history[i].from_status # status_history[i].to_status

C38_OnlyOwnerReadMarksViewed ==
    [][/\ \A a \in 1 .. Len(applications') :
             applications'[a].viewed_by_employer
                <=> applications'[a].viewed_at # NoTime
       /\ \A a \in AppIds :
             /\ applications[a].viewed_by_employer
                   => applications'[a].viewed_by_employer
             /\ (\/ applications'[a].viewed_by_employer
                       # applications[a].viewed_by_employer
                 \/ applications'[a].viewed_at # applications[a].viewed_at)
                   => \E p \in Procs :
                         /\ reqs[p].pc = "app_get_commit"
                         /\ reqs[p].app = a
                         /\ owner(reqs[p].user, a)
       /\ \A p \in Procs :
             (Takes(p, "app_get") /\ reqs'[p].app \in AppIds) =>
                LET u == reqs'[p].user
                    a == reqs'[p].app
                IN  /\ (applications[a].user_id = u /\ ~owner(u, a)) =>
                          reqs'[p].resp = "200" /\ UNCHANGED db
                    /\ (applications[a].user_id # u /\ ~owner(u, a)) =>
                          reqs'[p].resp = "403" /\ UNCHANGED db]_vars

\* The applicant has read an application that the owner of the posting had
\* read before: it is marked viewed, by the owner's read.
C38_Witness ==
    \E p \in Procs :
        /\ AnsweredWith(p, "app_get", "200")
        /\ applications[reqs[p].app].user_id = reqs[p].user
        /\ applications[reqs[p].app].viewed_by_employer

====
